---- MODULE Spec2Model ----
(***************************************************************************)
(* Model of the uga-rmp-extension: the content script ("Harvester",        *)
(* src/unnamed/part_002) that scans instructor cells, asks the service     *)
(* worker ("Resolver Service", src/background.js) for metrics over a       *)
(* runtime port, caches the answers in profMap and renders them.           *)
(*                                                                         *)
(* Strings are sequences of one-character tokens; the literal "(Primary)"  *)
(* is one token, and the text of a rendered span or anchor is one token.   *)
(* Numbers with one decimal are integers in tenths (42 is 4.2).            *)
(***************************************************************************)
EXTENDS Integers, Sequences, FiniteSets, TLC

\* ------------------------------------------------------------------ bounds
MaxCells == 2
MaxScans == 2
MaxFailures == 4
MaxRenders == 2
MaxLen == 7
MaxApplications == 2

\* --------------------------------------------------------------- constants
\* A ceiling one above the code's: the retry-ceiling property C6 fails with it.
MAX_RETRIES_Plus == 3 + 1
\* line 5: const MAX_RETRIES = 3
MAX_RETRIES == 3

\* JavaScript values: null, undefined, and the null profile link.
Null == [kind |-> "null"]
Undefined == [kind |-> "undefined"]
NullLink == <<>>

\* ------------------------------------------------------------ text helpers
UpperChars == {"J", "S", "A", "D", "E"}
LowerChars == {"a"}
WordChars == UpperChars \cup LowerChars \cup {"-"}
SpaceChars == {" "}
PrimaryLit == "(Primary)"

IsWord(t, i) == i >= 1 /\ i <= Len(t) /\ t[i] \in WordChars
IsSpace(t, i) == i >= 1 /\ i <= Len(t) /\ t[i] \in SpaceChars

\* Last index of the maximal run of [\w-] that starts at i (i-1 when none).
\* A greedy [\w-]+ followed by \s or "(" gives back nothing that could match,
\* so the run it keeps is the maximal one.
RECURSIVE WordRunEnd(_, _)
WordRunEnd(t, i) == IF IsWord(t, i) THEN WordRunEnd(t, i + 1) ELSE i - 1

\* Last index of the maximal run of \s that starts at i (i-1 when none).
RECURSIVE SpaceRunEnd(_, _)
SpaceRunEnd(t, i) == IF IsSpace(t, i) THEN SpaceRunEnd(t, i + 1) ELSE i - 1

\* ([\w-]+)\s*\(Primary\) tried at position b: the second capture group and
\* the tail of the pattern.  <<>> when it does not match there.
MatchTail(t, b) ==
    LET e2 == WordRunEnd(t, b)
        s3 == SpaceRunEnd(t, e2 + 1)
    IN  IF e2 >= b /\ s3 + 1 <= Len(t) /\ t[s3 + 1] = PrimaryLit
        THEN SubSeq(t, b, e2)
        ELSE <<>>

\* The whole pattern tried at start position i; <<>> when no match starts
\* at i, else <<match[1], match[2]>>.  The optional middle initial
\* (?:[A-Z]\.\s+)? is greedy: taken first, skipped on failure.
MatchAt(t, i) ==
    LET e1 == WordRunEnd(t, i)
        s1 == SpaceRunEnd(t, e1 + 1)
        p  == s1 + 1
        hasInitial == /\ p + 2 <= Len(t)
                      /\ t[p] \in UpperChars
                      /\ t[p + 1] = "."
                      /\ IsSpace(t, p + 2)
        withInitial == IF hasInitial
                       THEN MatchTail(t, SpaceRunEnd(t, p + 2) + 1)
                       ELSE <<>>
        without == MatchTail(t, p)
    IN  IF e1 < i \/ s1 <= e1 THEN <<>>
        ELSE IF withInitial # <<>> THEN <<SubSeq(t, i, e1), withInitial>>
        ELSE IF without # <<>> THEN <<SubSeq(t, i, e1), without>>
        ELSE <<>>

\* name.match(PRIMARY_PROFESSOR_REGEX): the leftmost match, <<>> for null.
RECURSIVE RegexSearch(_, _)
RegexSearch(t, i) ==
    IF i > Len(t) THEN <<>>
    ELSE IF MatchAt(t, i) # <<>> THEN MatchAt(t, i)
    ELSE RegexSearch(t, i + 1)

PRIMARY_PROFESSOR_REGEX(t) == RegexSearch(t, 1)

\* A normalization that swaps the two names and keeps the annotation: the
\* idempotence property C20 fails with it.
normalizeProfessorName_Swapped(name) ==
    LET match == PRIMARY_PROFESSOR_REGEX(name)
    IN  IF match # <<>>
        THEN match[2] \o <<" ">> \o match[1] \o <<" ", PrimaryLit>>
        ELSE name
\* A normalization whose fallback drops the annotation from a name the
\* pattern does not match: the fallback property C29 fails with it.
normalizeProfessorName_StripFallback(name) ==
    LET match == PRIMARY_PROFESSOR_REGEX(name)
    IN  IF match # <<>> THEN match[1] \o <<" ">> \o match[2]
        ELSE SelectSeq(name, LAMBDA c : c # PrimaryLit)
normalizeProfessorName(name) ==
    LET match == PRIMARY_PROFESSOR_REGEX(name)
    IN  IF match # <<>> THEN match[1] \o <<" ">> \o match[2] ELSE name

\* String.prototype.trim
RECURSIVE TrimLeft(_)
TrimLeft(t) == IF t # <<>> /\ Head(t) \in SpaceChars THEN TrimLeft(Tail(t)) ELSE t
RECURSIVE TrimRight(_)
TrimRight(t) ==
    IF t # <<>> /\ t[Len(t)] \in SpaceChars
    THEN TrimRight(SubSeq(t, 1, Len(t) - 1)) ELSE t
Trim(t) == TrimRight(TrimLeft(t))

\* ------------------------------------------------- remote rating provider
\* The provider's records.  T1 has a decodable identity token, T2 has one
\* that atob rejects; T2 carries the "no data" sentinel -1 (in tenths).
\* T3 and T4 are namesakes of T1 with 5 and 40 ratings, T5 and T6 namesakes
\* of T2 with 12 ratings each.
TeacherIds == {"T1", "T2", "T3", "T4", "T5", "T6"}

TeacherNode(id) ==
    CASE id = "T1" ->
           [avgDifficulty |-> 28, avgRating |-> 42, department |-> "CS",
            numRatings |-> 50, wouldTakeAgainPercent |-> 870]
      [] id = "T3" ->
           [avgDifficulty |-> 20, avgRating |-> 31, department |-> "CS",
            numRatings |-> 5, wouldTakeAgainPercent |-> 600]
      [] id = "T4" ->
           [avgDifficulty |-> 35, avgRating |-> 47, department |-> "CS",
            numRatings |-> 40, wouldTakeAgainPercent |-> 905]
      [] id = "T5" ->
           [avgDifficulty |-> 25, avgRating |-> 39, department |-> "MATH",
            numRatings |-> 12, wouldTakeAgainPercent |-> 750]
      [] id = "T6" ->
           [avgDifficulty |-> 41, avgRating |-> 22, department |-> "MATH",
            numRatings |-> 12, wouldTakeAgainPercent |-> 0]
      [] OTHER ->
           [avgDifficulty |-> 30, avgRating |-> 35, department |-> "MATH",
            numRatings |-> 0, wouldTakeAgainPercent |-> -10]

\* node.firstName and node.lastName of a search result.
TeacherName(id) ==
    IF id \in {"T1", "T3", "T4"}
    THEN [firstName |-> <<"J">>, lastName |-> <<"S">>]
    ELSE [firstName |-> <<"D">>, lastName |-> <<"E">>]

\* atob(id): <<>> when the token is not valid base64 (atob throws).
Atob(id) ==
    IF id = "T1" THEN <<"Teacher-", "123">>
    ELSE IF id = "T2" THEN <<>>
    ELSE <<"Teacher-", id>>

\* What one search request can come back with: a failed fetch or parse, or
\* a list of edges (node ids).
SearchOutcomes ==
    {[ok |-> FALSE, edges |-> <<>>]} \cup
    {[ok |-> TRUE, edges |-> e] : e \in {<<>>, <<"T1">>, <<"T2">>}}

\* What one metrics request can come back with: a failed fetch or parse, a
\* response without the node, or the node.
MetricsOutcomes == {"error", "missing", "node"}

\* --------------------------------------------------- Resolver Service code
getProfessorID(outcome) ==
    IF ~outcome.ok THEN Null
    ELSE IF outcome.edges # <<>> THEN [kind |-> "id", id |-> outcome.edges[1]]
    ELSE Null

\* The metrics call with a failed fetch not turned into null: the
\* error-swallowing property C16 fails with it.
getProfessorMetrics_ErrorAsData(professorID, outcome) ==
    IF outcome \in {"error", "node"}
    THEN LET node == TeacherNode(professorID)
         IN  [kind |-> "object",
              avgDifficulty |-> node.avgDifficulty,
              avgRating |-> node.avgRating,
              department |-> node.department,
              numRatings |-> node.numRatings,
              wouldTakeAgainPercent |-> node.wouldTakeAgainPercent]
    ELSE Null
getProfessorMetrics(professorID, outcome) ==
    IF outcome = "error" THEN Null
    ELSE IF outcome = "node"
    THEN LET node == TeacherNode(professorID)
         IN  [kind |-> "object",
              avgDifficulty |-> node.avgDifficulty,
              avgRating |-> node.avgRating,
              department |-> node.department,
              numRatings |-> node.numRatings,
              wouldTakeAgainPercent |-> node.wouldTakeAgainPercent]
    ELSE Null

\* decodedProfID.replace("Teacher-", ""): drops the first occurrence.
RECURSIVE ReplaceFirst(_, _)
ReplaceFirst(t, tok) ==
    IF t = <<>> THEN <<>>
    ELSE IF Head(t) = tok THEN Tail(t)
    ELSE <<Head(t)>> \o ReplaceFirst(Tail(t), tok)

\* The link built without the try/catch around atob: the decode-failure
\* property C19 fails with it.
getRMPProfessorLink_NoCatch(professorID) ==
    <<"https://www.ratemyprofessors.com/professor/">>
        \o ReplaceFirst(Atob(professorID), "Teacher-")
getRMPProfessorLink(professorID) ==
    LET decodedProfID == Atob(professorID)
    IN  IF decodedProfID = <<>> THEN NullLink
        ELSE <<"https://www.ratemyprofessors.com/professor/">>
                 \o ReplaceFirst(decodedProfID, "Teacher-")

getProfessorMetricsWithLink(professorID, outcome) ==
    LET metrics == getProfessorMetrics(professorID, outcome)
    IN  IF metrics # Null
        THEN [kind |-> "object",
              avgDifficulty |-> metrics.avgDifficulty,
              avgRating |-> metrics.avgRating,
              department |-> metrics.department,
              numRatings |-> metrics.numRatings,
              wouldTakeAgainPercent |-> metrics.wouldTakeAgainPercent,
              RMPLink |-> getRMPProfessorLink(professorID)]
        ELSE metrics

\* The value the onMessage listener posts for one request, given what the
\* two remote calls come back with.
ResolverReply(search, fetched) ==
    LET profID == getProfessorID(search)
    IN  IF profID = Null THEN Null
        ELSE getProfessorMetricsWithLink(profID.id, fetched)

\* ------------------------------------------------------------- rendering
\* JavaScript's conversion of a number (in tenths) to a string.
\* (FormatNumber_Truncated prints the integer part only: the end-to-end
\* property C21 fails with it.)
FormatNumber_Truncated(x) == ToString(x \div 10)
FormatNumber(x) ==
    IF x % 10 = 0 THEN ToString(x \div 10)
    ELSE ToString(x \div 10) \o "." \o ToString(x % 10)

\* Math.round of a number in tenths: the nearest integer, halves upwards.
MathRound(x) == (x + 5) \div 10

createSpan(text) == [tag |-> "span", text |-> text, href |-> NullLink]
BrElement == [tag |-> "br", text |-> "", href |-> NullLink]

\* The widget without the early return of line 145, the link appended to
\* the not-found message too: the not-found property C17 fails with it.
createRatingElement_LinkAlways(metrics) ==
    IF metrics = Null
    THEN <<createSpan("No page found."), BrElement,
           [tag |-> "a", text |-> "View on RMP", href |-> NullLink]>>
    ELSE <<createSpan("Overall: " \o FormatNumber(metrics.avgRating) \o " / 5"),
           BrElement,
           createSpan("Difficulty: " \o FormatNumber(metrics.avgDifficulty) \o " / 5"),
           BrElement,
           createSpan("Total Ratings: " \o FormatNumber(metrics.numRatings * 10)),
           BrElement,
           IF metrics.wouldTakeAgainPercent = -10
           THEN createSpan("No ratings available yet.")
           ELSE createSpan("Would take again: "
                    \o ToString(MathRound(metrics.wouldTakeAgainPercent)) \o "%"),
           BrElement,
           [tag |-> "a", text |-> "View on RMP", href |-> metrics.RMPLink]>>
\* The widget with every non-positive percentage taken for the sentinel:
\* the sentinel property C22 fails with it.
createRatingElement_ZeroSentinel(metrics) ==
    IF metrics = Null
    THEN <<createSpan("No page found.")>>
    ELSE <<createSpan("Overall: " \o FormatNumber(metrics.avgRating) \o " / 5"),
           BrElement,
           createSpan("Difficulty: " \o FormatNumber(metrics.avgDifficulty) \o " / 5"),
           BrElement,
           createSpan("Total Ratings: " \o FormatNumber(metrics.numRatings * 10)),
           BrElement,
           IF metrics.wouldTakeAgainPercent <= 0
           THEN createSpan("No ratings available yet.")
           ELSE createSpan("Would take again: "
                    \o ToString(MathRound(metrics.wouldTakeAgainPercent)) \o "%"),
           BrElement,
           [tag |-> "a", text |-> "View on RMP", href |-> metrics.RMPLink]>>
createRatingElement(metrics) ==
    IF metrics = Null
    THEN <<createSpan("No page found.")>>
    ELSE <<createSpan("Overall: " \o FormatNumber(metrics.avgRating) \o " / 5"),
           BrElement,
           createSpan("Difficulty: " \o FormatNumber(metrics.avgDifficulty) \o " / 5"),
           BrElement,
           createSpan("Total Ratings: " \o FormatNumber(metrics.numRatings * 10)),
           BrElement,
           IF metrics.wouldTakeAgainPercent = -10
           THEN createSpan("No ratings available yet.")
           ELSE createSpan("Would take again: "
                    \o ToString(MathRound(metrics.wouldTakeAgainPercent)) \o "%"),
           BrElement,
           [tag |-> "a", text |-> "View on RMP", href |-> metrics.RMPLink]>>

\* The text a rating div contributes to its cell's textContent: the texts
\* of its spans and anchor, one token each.
RECURSIVE WidgetText(_)
WidgetText(w) ==
    IF w = <<>> THEN <<>>
    ELSE (IF Head(w).tag = "br" THEN <<>> ELSE <<Head(w).text>>)
             \o WidgetText(Tail(w))

NoWidget == <<>>

\* element.textContent of an instructor cell
TextContent(cell) == cell.text \o WidgetText(cell.widget)

\* ------------------------------------------------------------------ state
VARIABLES
    cells,        \* the instructor cells ever created: text, widget, attached
    profMap,      \* the cache: normalized name -> metrics or Null
    portAlive,    \* the port held in `port` is connected
    contextValid, \* the extension context has not been invalidated
    outbox,       \* requests the service worker has received and not answered
    inbox,        \* responses posted by the service worker, not yet delivered
    listeners,    \* scans whose messageListener is registered on the port
    scan,         \* the invocations of handleMutations
    nScans,       \* how many invocations there have been
    runq,         \* continuations ready to run, in microtask order
    reloads,      \* calls of window.location.reload()
    failures,     \* sends that found the port disconnected
    origin        \* history: for each cache key, the requests whose responses
                  \* were stored under it

vars == <<cells, profMap, portAlive, contextValid, outbox, inbox, listeners,
          scan, nScans, runq, reloads, failures, origin>>

\* The cell texts the registration page produces.
DisplayNames ==
    { <<"J", " ", "S", " ", PrimaryLit>>,
      <<"J", " ", "A", ".", " ", "S", " ", PrimaryLit>>,
      <<"D", " ", "E">>,
      <<" ">> }

NoName == <<>>

IdleScan ==
    [pc |-> "idle", tables |-> <<>>, idx |-> 0, retryCount |-> 0,
     name |-> NoName, err |-> "", res |-> Null, from |-> NoName,
     reconnects |-> 0, fails |-> 0, consec |-> 0, failName |-> NoName,
     reload |-> "none", watch |-> NoName, watchSent |-> 0, asked |-> {}]

\* A finished invocation: nothing of its frame is left.
Finished(pc) == [IdleScan EXCEPT !.pc = pc]

ScanIds == 1..MaxScans

Init ==
    /\ cells = <<>>
    /\ profMap = <<>>
    /\ portAlive = TRUE
    /\ contextValid = TRUE
    /\ outbox = <<>>
    /\ inbox = <<>>
    /\ listeners = <<>>
    /\ scan = [s \in ScanIds |-> IdleScan]
    /\ nScans = 0
    /\ runq = <<>>
    /\ reloads = 0
    /\ failures = 0
    /\ origin = <<>>

\* ---------------------------------------------------------------- helpers
\* Map.prototype.has / get / set on a function with a growing domain.
\* has() weakened to "holds a non-null value": the cache property C1 fails
\* with it, null entries being asked for again.
MapHas_Truthy(map, key) == key \in DOMAIN map /\ map[key] # Null
MapHas(map, key) == key \in DOMAIN map
MapGet(map, key) == IF key \in DOMAIN map THEN map[key] ELSE Undefined
MapSet(map, key, value) ==
    [k \in DOMAIN map \cup {key} |-> IF k = key THEN value ELSE map[k]]

MapGetSet(map, key) == IF key \in DOMAIN map THEN map[key] ELSE {}

\* document.querySelectorAll('td[data-property="instructor"]'): the attached
\* cells in document order.
QueryCells == SelectSeq([i \in 1..Len(cells) |-> i], LAMBDA i : cells[i].attached)

\* The key processProfessorTables and updateProfessorRatings derive from a cell.
CellName(i) == normalizeProfessorName(Trim(TextContent(cells[i])))

RemoveAt(q, i) == SubSeq(q, 1, i - 1) \o SubSeq(q, i + 1, Len(q))

\* The for-loop of processProfessorTables from position idx on: the position
\* of the first cell that is neither blank nor cached, 0 when there is none.
\* The same loop without the cache check of line 85: the append-only
\* property C11 fails with it, cached names being resolved again.
RECURSIVE NextMiss_NoGate(_, _)
NextMiss_NoGate(tables, idx) ==
    IF idx > Len(tables) THEN 0
    ELSE IF Len(Trim(TextContent(cells[tables[idx]]))) = 0
         THEN NextMiss_NoGate(tables, idx + 1)
         ELSE idx
\* The same loop without the blank check of lines 77-79: the empty-cell
\* property C28 fails with it.
RECURSIVE NextMiss_NoBlankSkip(_, _)
NextMiss_NoBlankSkip(tables, idx) ==
    IF idx > Len(tables) THEN 0
    ELSE LET professorName == Trim(TextContent(cells[tables[idx]]))
         IN  IF MapHas(profMap, normalizeProfessorName(professorName))
             THEN NextMiss_NoBlankSkip(tables, idx + 1)
             ELSE idx
RECURSIVE NextMiss(_, _)
NextMiss(tables, idx) ==
    IF idx > Len(tables) THEN 0
    ELSE LET professorName == Trim(TextContent(cells[tables[idx]]))
         IN  IF Len(professorName) = 0 THEN NextMiss(tables, idx + 1)
             ELSE IF MapHas(profMap, normalizeProfessorName(professorName))
                  THEN NextMiss(tables, idx + 1)
                  ELSE idx

\* The port going down takes the messages in flight with it, and the
\* listeners registered on it are never called again.
Hang(sc) == [s \in ScanIds |->
                IF sc[s].pc = "await" THEN [sc[s] EXCEPT !.pc = "hung"] ELSE sc[s]]

\* A request for `name` goes out: every invocation watching that name counts it.
CountSent(sc, name) ==
    [s \in ScanIds |->
        IF sc[s].watch = name /\ name # NoName
        THEN [sc[s] EXCEPT !.watchSent = @ + 1] ELSE sc[s]]

\* The first name that two cells of the batch share and the cache lacks.
RECURSIVE NamesOf(_)
NamesOf(tables) ==
    IF tables = <<>> THEN <<>>
    ELSE <<CellName(Head(tables))>> \o NamesOf(Tail(tables))
SharedMiss(tables) ==
    LET names == NamesOf(tables)
        dup == {i \in 1..Len(names) :
                   /\ names[i] # NoName
                   /\ ~MapHas(profMap, names[i])
                   /\ \E j \in 1..Len(names) : j # i /\ names[j] = names[i]}
    IN  IF dup = {} THEN NoName
        ELSE names[CHOOSE i \in dup : \A j \in dup : i <= j]

\* ------------------------------------------------------ the host document
\* Events are followed only while some invocation of handleMutations, started
\* or still to come, can observe what they change.
Observed == nScans < MaxScans \/ \E s \in ScanIds : scan[s].pc = "await"

AddCell(text) ==
    /\ runq = <<>> /\ reloads = 0 /\ Observed
    /\ Len(cells) < MaxCells
    /\ cells' = Append(cells, [text |-> text, widget |-> NoWidget, attached |-> TRUE])
    /\ UNCHANGED <<profMap, portAlive, contextValid, outbox, inbox, listeners,
                   scan, nScans, runq, reloads, failures, origin>>

\* The extension is reloaded or updated while the page is open.
Invalidate ==
    /\ runq = <<>> /\ reloads = 0 /\ Observed
    /\ contextValid
    /\ contextValid' = FALSE
    /\ portAlive' = FALSE
    /\ outbox' = <<>> /\ inbox' = <<>> /\ listeners' = <<>>
    /\ scan' = Hang(scan)
    /\ UNCHANGED <<cells, profMap, nScans, runq, reloads, failures, origin>>

\* ------------------------------------------------------- Resolver Service
\* chrome.runtime.onConnect / port.onMessage listener: one request answered.
\* Requests are handled concurrently, so any pending one may finish first.
OnMessage(i) ==
    /\ runq = <<>> /\ reloads = 0
    /\ i \in 1..Len(outbox)
    /\ LET msg == outbox[i]
       IN  /\ outbox' = RemoveAt(outbox, i)
           /\ IF msg.professorName # NoName
              THEN \E search \in SearchOutcomes, fetched \in MetricsOutcomes :
                       inbox' = Append(inbox,
                           [professorMetrics |-> ResolverReply(search, fetched),
                            req |-> msg.professorName])
              ELSE inbox' = inbox
    /\ UNCHANGED <<cells, profMap, portAlive, contextValid, listeners, scan,
                   nScans, runq, reloads, failures, origin>>

\* --------------------------------------------------------------- Harvester
\* handleMutations: the MutationObserver callback.  It is an async function,
\* so the observer calls it again while an earlier call is suspended.
handleMutations ==
    /\ runq = <<>> /\ reloads = 0
    /\ nScans < MaxScans
    /\ LET tables == QueryCells
           s == nScans + 1
       IN  /\ Len(tables) > 0
           /\ scan' = [scan EXCEPT ![s] =
                          [IdleScan EXCEPT !.pc = "process", !.tables = tables,
                                           !.idx = 1,
                                           !.watch = SharedMiss(tables)]]
           /\ nScans' = s
           /\ runq' = <<s>>
    /\ UNCHANGED <<cells, profMap, portAlive, contextValid, outbox, inbox,
                   listeners, reloads, failures, origin>>

\* line 37: if (msg.professorMetrics)
Truthy(value) == value # Null

\* line 93: error.message.includes('Extension context invalidated.')
IsContextInvalidated(err) == err = "invalidated"

\* line 98: error.message.includes('Attempting to use a disconnected port object')
\* The same test also matching the rejection of an empty response: the
\* negative-caching property C10 fails with it.
IsDisconnectedPort_AnyFailure(err) == err \in {"disconnected", "failed"}
IsDisconnectedPort(err) == err = "disconnected"

\* What port.postMessage can do: deliver, or throw one of the two errors.
PostOutcomes ==
    (IF contextValid /\ portAlive THEN {"ok"} ELSE {}) \cup
    (IF contextValid /\ portAlive /\ failures >= MaxFailures
     THEN {} ELSE {"disconnected"}) \cup
    (IF contextValid THEN {} ELSE {"invalidated"})

\* processProfessorTables, from the top of the for-loop to the await in
\* getProfessorMetrics (or to the end of the loop).
processProfessorTables(s) ==
    /\ runq # <<>> /\ Head(runq) = s
    /\ scan[s].pc = "process"
    /\ LET j == NextMiss(scan[s].tables, scan[s].idx)
       IN  IF j = 0
           THEN /\ scan' = [scan EXCEPT ![s].pc = "render", ![s].idx = 0,
                                        ![s].tables = <<>>, ![s].name = NoName]
                /\ runq' = Tail(runq) \o <<s>>
                /\ UNCHANGED <<portAlive, outbox, inbox, listeners, failures>>
           ELSE LET professorName == CellName(scan[s].tables[j])
                IN  \E out \in PostOutcomes :
                      IF out = "ok"
                      THEN /\ outbox' = Append(outbox, [professorName |-> professorName])
                           /\ listeners' = Append(listeners, s)
                           /\ scan' = CountSent(
                                  [scan EXCEPT ![s].pc = "await", ![s].idx = j,
                                               ![s].name = professorName,
                                               ![s].consec = 0,
                                               ![s].failName = NoName,
                                               ![s].asked = @ \cup {professorName}],
                                  professorName)
                           /\ runq' = Tail(runq)
                           /\ UNCHANGED <<portAlive, inbox, failures>>
                      ELSE /\ portAlive' = FALSE
                           /\ failures' = IF out = "disconnected" /\ contextValid
                                          THEN failures + 1 ELSE failures
                           /\ outbox' = <<>> /\ inbox' = <<>> /\ listeners' = <<>>
                           /\ scan' = [Hang(scan) EXCEPT
                                  ![s].pc = "catch", ![s].idx = j,
                                  ![s].name = professorName, ![s].err = out,
                                  ![s].fails = IF out = "disconnected" THEN @ + 1 ELSE @,
                                  ![s].consec =
                                      IF out = "disconnected"
                                      THEN (IF scan[s].failName = professorName
                                            THEN @ + 1 ELSE 1)
                                      ELSE @,
                                  ![s].failName =
                                      IF out = "disconnected" THEN professorName ELSE @]
                           /\ runq' = Tail(runq) \o <<s>>
    /\ UNCHANGED <<cells, profMap, contextValid, nScans, reloads, origin>>

\* port.onMessage dispatches one response to every registered listener
\* (messageListener): a truthy professorMetrics resolves, anything else rejects.
messageListener ==
    /\ runq = <<>> /\ reloads = 0
    /\ inbox # <<>>
    /\ LET msg == Head(inbox)
       IN  /\ inbox' = Tail(inbox)
           /\ scan' = [s \in ScanIds |->
                  IF scan[s].pc = "await"
                  THEN IF Truthy(msg.professorMetrics)
                       THEN [scan[s] EXCEPT !.pc = "resumed",
                                            !.res = msg.professorMetrics,
                                            !.from = msg.req]
                       ELSE [scan[s] EXCEPT !.pc = "catch", !.err = "failed",
                                            !.from = msg.req]
                  ELSE scan[s]]
           /\ runq' = listeners
           /\ listeners' = <<>>
    /\ UNCHANGED <<cells, profMap, portAlive, contextValid, outbox, nScans,
                   reloads, failures, origin>>

\* line 91: profMap.set(professorName, metrics), then on to the next cell.
StoreMetrics(s) ==
    /\ runq # <<>> /\ Head(runq) = s
    /\ scan[s].pc = "resumed"
    /\ profMap' = MapSet(profMap, scan[s].name, scan[s].res)
    /\ origin' = MapSet(origin, scan[s].name,
                        MapGetSet(origin, scan[s].name) \cup {scan[s].from})
    /\ scan' = [scan EXCEPT ![s].pc = "process", ![s].idx = @ + 1,
                            ![s].res = Null, ![s].from = NoName,
                            ![s].name = NoName]
    /\ UNCHANGED <<cells, portAlive, contextValid, outbox, inbox, listeners,
                   nScans, runq, reloads, failures>>

\* The catch block of processProfessorTables (lines 92-111).
CatchError(s) ==
    /\ runq # <<>> /\ Head(runq) = s
    /\ scan[s].pc = "catch"
    /\ IF IsContextInvalidated(scan[s].err)
       THEN \* window.location.reload(); return
            /\ reloads' = reloads + 1
            /\ scan' = [scan EXCEPT ![s].pc = "render", ![s].reload = "invalidated",
                                    ![s].idx = 0, ![s].tables = <<>>,
                                    ![s].name = NoName, ![s].err = ""]
            /\ runq' = Tail(runq) \o <<s>>
            /\ UNCHANGED <<profMap, origin, portAlive>>
       ELSE IF IsDisconnectedPort(scan[s].err)
       THEN IF scan[s].retryCount >= MAX_RETRIES
            THEN /\ reloads' = reloads + 1
                 /\ scan' = [scan EXCEPT ![s].pc = "render", ![s].reload = "ceiling",
                                         ![s].idx = 0, ![s].tables = <<>>,
                                         ![s].name = NoName, ![s].err = ""]
                 /\ runq' = Tail(runq) \o <<s>>
                 /\ UNCHANGED <<profMap, origin, portAlive>>
            ELSE IF contextValid
            THEN \* port = chrome.runtime.connect(...); the recursive call
                 /\ portAlive' = TRUE
                 /\ scan' = [scan EXCEPT ![s].pc = "process", ![s].idx = 1,
                                         ![s].retryCount = @ + 1,
                                         ![s].reconnects = @ + 1,
                                         ![s].name = NoName, ![s].err = ""]
                 /\ UNCHANGED <<profMap, origin, reloads, runq>>
            ELSE \* chrome.runtime.connect throws "Extension context
                 \* invalidated." inside the catch block: nothing handles it
                 /\ scan' = [scan EXCEPT ![s] = Finished("crashed")]
                 /\ runq' = Tail(runq)
                 /\ UNCHANGED <<profMap, origin, reloads, portAlive>>
       ELSE \* line 110: profMap.set(professorName, null)
            /\ profMap' = MapSet(profMap, scan[s].name, Null)
            /\ origin' = MapSet(origin, scan[s].name,
                                MapGetSet(origin, scan[s].name) \cup {scan[s].from})
            /\ scan' = [scan EXCEPT ![s].pc = "process", ![s].idx = @ + 1,
                                    ![s].from = NoName, ![s].name = NoName,
                                    ![s].err = ""]
            /\ UNCHANGED <<reloads, runq, portAlive>>
    /\ UNCHANGED <<cells, contextValid, outbox, inbox, listeners, nScans, failures>>

\* updateProfessorRatings over the cells `list`, starting from document cs.
\* (RenderCells_NoThrow is the same loop with a missing cache entry rendered
\* like null instead of throwing: the ordering property C12 fails with it.)
\* createRatingElement(undefined) throws a TypeError at metrics.avgRating:
\* the loop ends there, the cell's old div already removed.
RECURSIVE RenderCells_NoThrow(_, _)
RenderCells_NoThrow(cs, list) ==
    IF list = <<>> THEN cs
    ELSE LET i == Head(list)
             professorName == normalizeProfessorName(Trim(TextContent(cs[i])))
             removed == [cs EXCEPT ![i].widget = NoWidget]
             metrics == MapGet(profMap, professorName)
         IN  IF professorName = NoName THEN RenderCells_NoThrow(removed, Tail(list))
             ELSE RenderCells_NoThrow(
                      [removed EXCEPT ![i].widget =
                          createRatingElement(IF metrics = Undefined
                                              THEN Null ELSE metrics)],
                      Tail(list))
RECURSIVE RenderCells(_, _)
RenderCells(cs, list) ==
    IF list = <<>> THEN cs
    ELSE LET i == Head(list)
             professorName == normalizeProfessorName(Trim(TextContent(cs[i])))
             removed == [cs EXCEPT ![i].widget = NoWidget]
             metrics == MapGet(profMap, professorName)
         IN  IF professorName = NoName THEN RenderCells(removed, Tail(list))
             ELSE IF metrics = Undefined THEN removed
             ELSE RenderCells(
                      [removed EXCEPT ![i].widget = createRatingElement(metrics)],
                      Tail(list))

\* The second await of handleMutations: updateProfessorRatings.
updateProfessorRatings(s) ==
    /\ runq # <<>> /\ Head(runq) = s
    /\ scan[s].pc = "render"
    /\ cells' = RenderCells(cells, QueryCells)
    /\ scan' = [scan EXCEPT ![s] = Finished("done")]
    /\ runq' = Tail(runq)
    /\ UNCHANGED <<profMap, portAlive, contextValid, outbox, inbox, listeners,
                   nScans, reloads, failures, origin>>

Next ==
    \/ \E text \in DisplayNames : AddCell(text)
    \/ Invalidate
    \/ \E i \in 1..(MaxScans * MaxCells) : OnMessage(i)
    \/ handleMutations
    \/ messageListener
    \/ \E s \in ScanIds : processProfessorTables(s)
    \/ \E s \in ScanIds : StoreMetrics(s)
    \/ \E s \in ScanIds : CatchError(s)
    \/ \E s \in ScanIds : updateProfessorRatings(s)

Spec == Init /\ [][Next]_vars

\* ------------------------------------------- the Resolver Service alone
\* One request handled by the port.onMessage listener, for every name the
\* Harvester can ask for and everything the two remote calls can come back
\* with.  The request in outbox carries what the remote calls will return;
\* the response in inbox keeps it next to the posted value.
SearchResults ==
    {[ok |-> FALSE, edges |-> <<>>]} \cup
    {[ok |-> TRUE, edges |-> e] :
        e \in UNION {[1..n -> TeacherIds] : n \in 0..2}}

QueryNames == {normalizeProfessorName(Trim(t)) : t \in DisplayNames}

ResolverInit ==
    /\ outbox \in {<<[professorName |-> n, search |-> sr, fetched |-> f]>> :
                      n \in QueryNames, sr \in SearchResults, f \in MetricsOutcomes}
    /\ cells = <<>>
    /\ profMap = <<>>
    /\ portAlive = TRUE
    /\ contextValid = TRUE
    /\ inbox = <<>>
    /\ listeners = <<>>
    /\ scan = [s \in ScanIds |-> IdleScan]
    /\ nScans = 0
    /\ runq = <<>>
    /\ reloads = 0
    /\ failures = 0
    /\ origin = <<>>

\* What one run of the listener of background.js:202-217 posts on the port
\* for the request msg, in order.
\* (onMessageListener_NoReturn is the listener without the return of line
\* 207: after posting null for an unknown professor it goes on to post the
\* metrics of the null identifier.  The one-response property C26 fails
\* with it.)
PostedMessage(msg, professorMetrics) ==
    [professorMetrics |-> professorMetrics, req |-> msg.professorName,
     search |-> msg.search, fetched |-> msg.fetched]
onMessageListener_NoReturn(msg) ==
    IF msg.professorName # NoName
    THEN LET profID == getProfessorID(msg.search)
         IN  IF profID = Null
             THEN <<PostedMessage(msg, Null), PostedMessage(msg, Null)>>
             ELSE <<PostedMessage(msg,
                        getProfessorMetricsWithLink(profID.id, msg.fetched))>>
    ELSE <<>>
onMessageListener(msg) ==
    IF msg.professorName # NoName
    THEN LET profID == getProfessorID(msg.search)
         IN  IF profID = Null
             THEN <<PostedMessage(msg, Null)>>
             ELSE <<PostedMessage(msg,
                        getProfessorMetricsWithLink(profID.id, msg.fetched))>>
    ELSE <<>>

\* The listener run on the request at the head of the port's queue.
Respond ==
    /\ outbox # <<>>
    /\ LET msg == Head(outbox)
       IN  /\ outbox' = Tail(outbox)
           /\ inbox' = inbox \o onMessageListener(msg)
    /\ UNCHANGED <<cells, profMap, portAlive, contextValid, listeners, scan,
                   nScans, runq, reloads, failures, origin>>

ResolverSpec == ResolverInit /\ [][Respond]_vars

\* ---------------------------------------------------- normalization alone
\* normalizeProfessorName applied to the text of one cell and then to its own
\* result, for every text of up to MaxLen tokens: a word character that is a
\* capital, one that is not, the period, the blank and the annotation.
NameAlphabet == {"J", "-", ".", " ", PrimaryLit}

NormInit ==
    /\ cells \in {<<[text |-> x, widget |-> NoWidget, attached |-> TRUE]>> :
                     x \in UNION {[1..n -> NameAlphabet] : n \in 0..MaxLen}}
    /\ profMap = <<>>
    /\ portAlive = TRUE
    /\ contextValid = TRUE
    /\ outbox = <<>>
    /\ inbox = <<>>
    /\ listeners = <<>>
    /\ scan = [s \in ScanIds |-> IdleScan]
    /\ nScans = 0
    /\ runq = <<>>
    /\ reloads = 0
    /\ failures = 0
    /\ origin = <<>>

\* One application; outbox keeps the successive results.
Normalize ==
    /\ Len(outbox) < MaxApplications
    /\ outbox' = Append(outbox,
           [professorName |->
               normalizeProfessorName(IF outbox = <<>> THEN cells[1].text
                                      ELSE outbox[Len(outbox)].professorName)])
    /\ UNCHANGED <<cells, profMap, portAlive, contextValid, inbox, listeners,
                   scan, nScans, runq, reloads, failures, origin>>

NormSpec == NormInit /\ [][Normalize]_vars

\* ------------------------------------------------- the render step alone
\* updateProfessorRatings run repeatedly over a fixed document and a fixed
\* cache: every document of up to MaxCells non-empty instructor cells without
\* widgets, every cache that holds the name of each of its cells.
CacheValues ==
    {ResolverReply(search, fetched) :
        search \in SearchResults, fetched \in MetricsOutcomes}

RenderNames == {t \in DisplayNames : Trim(t) # <<>>}

RenderInit ==
    /\ cells \in UNION {[1..n -> {[text |-> t, widget |-> NoWidget, attached |-> TRUE] :
                                     t \in RenderNames}] : n \in 1..MaxCells}
    /\ profMap \in {f \in UNION {[K -> CacheValues] :
                          K \in SUBSET {normalizeProfessorName(Trim(t)) : t \in RenderNames}} :
                      \A i \in 1..Len(cells) :
                          normalizeProfessorName(Trim(cells[i].text)) \in DOMAIN f}
    /\ portAlive = TRUE
    /\ contextValid = TRUE
    /\ outbox = <<>>
    /\ inbox = <<>>
    /\ listeners = <<>>
    /\ scan = [s \in ScanIds |-> IdleScan]
    /\ nScans = 0
    /\ runq = <<>>
    /\ reloads = 0
    /\ failures = 0
    /\ origin = <<>>

\* One call of updateProfessorRatings; nScans counts the calls.
Render ==
    /\ nScans < MaxRenders
    /\ cells' = RenderCells(cells, QueryCells)
    /\ nScans' = nScans + 1
    /\ UNCHANGED <<profMap, portAlive, contextValid, outbox, inbox, listeners,
                   scan, runq, reloads, failures, origin>>

RenderSpec == RenderInit /\ [][Render]_vars

\* -------------------------------------------------------------- properties
\* The names of the requests on the channel that have not been answered and
\* delivered: received by the service worker, or answered and on the way back.
RECURSIVE ReqNames(_)
ReqNames(q) == IF q = <<>> THEN <<>> ELSE <<Head(q).professorName>> \o ReqNames(Tail(q))
RECURSIVE RespNames(_)
RespNames(q) == IF q = <<>> THEN <<>> ELSE <<Head(q).req>> \o RespNames(Tail(q))
Outstanding == ReqNames(outbox) \o RespNames(inbox)

Awaiting == {s \in ScanIds : scan[s].pc = "await"}

\* C1: once a name has an entry in profMap (metrics or null), no postMessage
\* is made for that name again: every request that goes out, and every send
\* that fails, is for a name the cache does not hold at that moment.
C1_CacheMonotonicity ==
    [][\A s \in ScanIds :
          (scan[s].pc = "process" /\ scan'[s].pc \in {"await", "catch"})
              => /\ scan'[s].name \notin DOMAIN profMap
                 /\ (Len(outbox') > Len(outbox)
                        => outbox'[Len(outbox')].professorName \notin DOMAIN profMap)]_vars

\* C1 witness: a second invocation, started after the first one finished and
\* rendered, has passed a cell whose name is cached without asking for it and
\* is waiting for the answer about the next cell.
C1_Witness ==
    /\ scan[1].pc = "done"
    /\ scan[2].pc = "await" /\ scan[2].idx = 2
    /\ CellName(scan[2].tables[1]) \in DOMAIN profMap
    /\ CellName(scan[2].tables[1]) \notin scan[2].asked

\* C2: a value stored in the cache under N is the response to a request that
\* was sent for N.
C2_RequestResponsePairing ==
    \A k \in DOMAIN origin : origin[k] \subseteq {k}

\* C3: at most one resolution request is in flight, and at most one
\* invocation is suspended on a response.
C3_OneRequestInFlight ==
    /\ Len(Outstanding) <= 1
    /\ Cardinality(Awaiting) <= 1

\* C4: no two outstanding requests are for the same name.
C4_NoDuplicateOutstanding ==
    \A i, j \in 1..Len(Outstanding) :
        i # j => Outstanding[i] # Outstanding[j]

C6_RetryCeiling ==
    \A s \in ScanIds :
        /\ scan[s].reconnects <= 3
        /\ scan[s].consec <= 4
        /\ scan[s].consec = 4
              => /\ scan[s].reconnects = 3
                 /\ scan[s].pc = "catch" \/ scan[s].reload = "ceiling"
        /\ scan[s].reload = "ceiling"
              => scan[s].fails = 4 /\ scan[s].reconnects = 3 /\ reloads >= 1

\* C6 witness: the 4th consecutive disconnection of one request has been
\* handled by reloading the page.
C6_Witness ==
    \E s \in ScanIds :
        scan[s].consec = 4 /\ scan[s].reload = "ceiling" /\ scan[s].reconnects = 3

\* C7: the reload for disconnection comes only when the request being sent
\* has itself failed 4 times in a row (it had its full 3 reconnects).
C7_RetriesPerRequest ==
    \A s \in ScanIds : scan[s].reload = "ceiling" => scan[s].consec = 4

\* C8: after a disconnection with retries left, the next postMessage of the
\* call chain is for the name whose request just failed.
C8_RetrySameRequest ==
    [][\A s \in ScanIds :
          (/\ scan[s].pc = "process" /\ scan[s].failName # NoName
           /\ scan'[s].pc \in {"await", "catch"})
              => scan'[s].name = scan[s].failName]_vars

\* C9: an invocation that meets the invalidated extension context, at a send
\* or when it re-creates the channel, reloads the page; after that it only
\* renders: it sends nothing and writes no cache entry.
C9_InvalidationReloads ==
    \A s \in ScanIds :
        /\ scan[s].pc = "crashed" => reloads >= 1
        /\ scan[s].reload = "invalidated"
              => reloads >= 1 /\ scan[s].pc = "render" /\ scan[s].reconnects = 0

\* C10: a response without metrics rejects the waiting request; the catch
\* block then stores null under the name, makes no reconnect and no reload,
\* and goes on with the next cell.  A disconnected port and an invalidated
\* context are the failures that store nothing.
C10_NegativeCaching ==
    [][\A s \in ScanIds :
          /\ (scan[s].pc = "await" /\ scan'[s].pc \notin {"await", "hung"})
                => IF Head(inbox).professorMetrics = Null
                   THEN scan'[s].pc = "catch" /\ scan'[s].err = "failed"
                   ELSE scan'[s].pc = "resumed"
          /\ (scan[s].pc = "catch" /\ scan'[s].pc # "catch")
                => IF scan[s].err = "failed"
                   THEN /\ profMap' = MapSet(profMap, scan[s].name, Null)
                        /\ scan'[s].pc = "process"
                        /\ scan'[s].idx = scan[s].idx + 1
                        /\ scan'[s].retryCount = scan[s].retryCount
                        /\ scan'[s].reconnects = scan[s].reconnects
                        /\ portAlive' = portAlive /\ reloads' = reloads
                   ELSE profMap' = profMap]_vars

\* C10 witness: an invocation got a response without metrics for its first
\* cell, stored null for it without any reconnect, and is now waiting for the
\* answer about its second cell.
C10_Witness ==
    \E s \in ScanIds :
        /\ scan[s].pc = "await" /\ scan[s].idx = 2
        /\ scan[s].reconnects = 0 /\ scan[s].fails = 0
        /\ CellName(scan[s].tables[1]) \in scan[s].asked
        /\ MapGet(profMap, CellName(scan[s].tables[1])) = Null

C12_RenderOnlyCached ==
    [][\A s \in ScanIds :
          (scan[s].pc = "render" /\ scan'[s].pc = "done")
              => \A i \in 1..Len(cells) :
                    /\ CellName(i) \notin DOMAIN profMap
                          => cells'[i].widget \in {NoWidget, cells[i].widget}
                    /\ (cells'[i].widget # NoWidget
                            /\ cells'[i].widget # cells[i].widget)
                          => normalizeProfessorName(Trim(cells[i].text))
                                 \in DOMAIN profMap]_vars

\* C12 witness: a scan ended by the page-reload fallback has rendered: the
\* cell whose name was resolved carries a widget, the cell whose request
\* kept failing, its name not cached, carries none.
C12_Witness ==
    /\ reloads >= 1
    /\ \E s \in ScanIds : scan[s].pc = "done"
    /\ \E i, j \in 1..Len(cells) :
          /\ cells[i].widget # NoWidget
          /\ cells[j].widget = NoWidget
          /\ CellName(j) # NoName
          /\ CellName(j) \notin DOMAIN profMap

\* C13: with the name of every cell cached, each call of the render step
\* leaves a rating widget in every cell, and a call that follows another
\* leaves the document exactly as it found it.
C13_RenderIdempotent ==
    [][nScans' = nScans + 1
          => /\ \A i \in 1..Len(cells') : cells'[i].widget # NoWidget
             /\ nScans >= 1 => cells' = cells]_vars

\* The first and last name of a search result as one name.
FullName(id) == TeacherName(id).firstName \o <<" ">> \o TeacherName(id).lastName

\* C14: when the search returns a non-empty list whose first result's first
\* and last name are not the two tokens of the queried name, the response
\* carries null.
C14_NameMismatchRejected ==
    \A k \in 1..Len(inbox) :
        (/\ inbox[k].search.ok
         /\ inbox[k].search.edges # <<>>
         /\ FullName(inbox[k].search.edges[1]) # inbox[k].req)
            => inbox[k].professorMetrics = Null

\* C15: when the first two search results bear the same first and last name
\* and the metrics call succeeds, the response carries the metrics of the
\* one with more ratings, and those of the first on a tie.
C15_Disambiguation ==
    \A k \in 1..Len(inbox) :
        (/\ inbox[k].search.ok
         /\ Len(inbox[k].search.edges) >= 2
         /\ TeacherName(inbox[k].search.edges[1]) = TeacherName(inbox[k].search.edges[2])
         /\ inbox[k].fetched = "node")
            => LET first == inbox[k].search.edges[1]
                   second == inbox[k].search.edges[2]
                   best == IF TeacherNode(second).numRatings > TeacherNode(first).numRatings
                           THEN second ELSE first
               IN  inbox[k].professorMetrics = getProfessorMetricsWithLink(best, "node")

\* C16: a network or parse failure of the search call or of the metrics call
\* is answered, with one response carrying null: the same response as for a
\* search that finds nobody.
C16_ErrorsSwallowed ==
    [][(/\ outbox # <<>> /\ outbox' = Tail(outbox)
        /\ Head(outbox).professorName # NoName
        /\ \/ ~Head(outbox).search.ok
           \/ Head(outbox).search.edges # <<>> /\ Head(outbox).fetched = "error")
          => /\ Len(inbox') = Len(inbox) + 1
             /\ inbox'[Len(inbox')].professorMetrics = Null
             /\ inbox'[Len(inbox')].professorMetrics =
                    ResolverReply([ok |-> TRUE, edges |-> <<>>], Head(outbox).fetched)]_vars

\* C16 witness: a request whose search found a teacher and whose metrics call
\* failed has been answered with null.
C16_Witness ==
    \E k \in 1..Len(inbox) :
        /\ inbox[k].search.ok /\ inbox[k].search.edges # <<>>
        /\ inbox[k].fetched = "error"
        /\ inbox[k].professorMetrics = Null

\* The render loop gets as far as cell i: no attached cell before it has a
\* non-empty name without a cache entry.
Reached(i) ==
    \A j \in 1..(i - 1) :
        cells[j].attached => (CellName(j) = NoName \/ CellName(j) \in DOMAIN profMap)

\* C17: a search with zero results is answered with null, and a render step
\* that finds null in the cache for the name of a cell leaves in that cell a
\* widget made of the one text "No page found.": no rating line, no link.
C17_NotFoundRendering ==
    [][/\ \A fetched \in MetricsOutcomes :
             ResolverReply([ok |-> TRUE, edges |-> <<>>], fetched) = Null
       /\ \A s \in ScanIds :
             (scan[s].pc = "render" /\ scan'[s].pc = "done")
                => \A i \in 1..Len(cells) :
                      (/\ cells[i].attached /\ Reached(i)
                       /\ CellName(i) \in DOMAIN profMap
                       /\ profMap[CellName(i)] = Null)
                          => cells'[i].widget =
                                 <<[tag |-> "span", text |-> "No page found.",
                                    href |-> NullLink]>>]_vars

\* C17 witness: a cell whose name has the cache entry null shows the
\* not-found widget.
C17_Witness ==
    \E i \in 1..Len(cells) :
        /\ normalizeProfessorName(Trim(cells[i].text)) \in DOMAIN profMap
        /\ profMap[normalizeProfessorName(Trim(cells[i].text))] = Null
        /\ cells[i].widget =
               <<[tag |-> "span", text |-> "No page found.", href |-> NullLink]>>

\* C18: a render step that finds in the cache, for the name of a cell,
\* metrics whose profile link is null leaves in that cell a widget with the
\* rating, difficulty, count and would-take-again lines and without any
\* link element.
C18_DecodeFailureRendering ==
    [][\A s \in ScanIds :
          (scan[s].pc = "render" /\ scan'[s].pc = "done")
             => \A i \in 1..Len(cells) :
                   (/\ cells[i].attached /\ Reached(i)
                    /\ CellName(i) \in DOMAIN profMap
                    /\ profMap[CellName(i)] # Null
                    /\ profMap[CellName(i)].RMPLink = NullLink)
                       => LET w == cells'[i].widget
                          IN  /\ Len(SelectSeq(w, LAMBDA e : e.tag = "span")) = 4
                              /\ \A k \in 1..Len(w) : w[k].tag # "a"]_vars

\* C19: when the identity token of the teacher found cannot be decoded and
\* the metrics call succeeds, the response is an object that carries the
\* teacher's avgRating, avgDifficulty, numRatings and wouldTakeAgainPercent
\* as the provider gave them, and a null profile link.
C19_DecodeFailureKeepsMetrics ==
    \A k \in 1..Len(inbox) :
        (/\ inbox[k].search.ok /\ inbox[k].search.edges # <<>>
         /\ inbox[k].fetched = "node"
         /\ Atob(inbox[k].search.edges[1]) = <<>>)
            => LET node == TeacherNode(inbox[k].search.edges[1])
                   reply == inbox[k].professorMetrics
               IN  /\ reply # Null
                   /\ reply.avgRating = node.avgRating
                   /\ reply.avgDifficulty = node.avgDifficulty
                   /\ reply.numRatings = node.numRatings
                   /\ reply.wouldTakeAgainPercent = node.wouldTakeAgainPercent
                   /\ reply.RMPLink = NullLink

\* C19 witness: the request was answered for a teacher whose token does not
\* decode, with metrics and a null link.
C19_Witness ==
    \E k \in 1..Len(inbox) :
        /\ inbox[k].search.ok /\ inbox[k].search.edges # <<>>
        /\ inbox[k].fetched = "node"
        /\ Atob(inbox[k].search.edges[1]) = <<>>
        /\ inbox[k].professorMetrics # Null
        /\ inbox[k].professorMetrics.RMPLink = NullLink

\* C20: normalizing the normalized name gives the normalized name again.
C20_NormalizeIdempotent ==
    \A k \in 2..Len(outbox) : outbox[k].professorName = outbox[1].professorName

\* C20 witness: the text "J J. J (Primary)" without the blank before the
\* annotation was normalized to "J J", and that name was normalized again.
C20_Witness ==
    /\ cells[1].text = <<"J", " ", "J", ".", " ", "J", PrimaryLit>>
    /\ Len(outbox) >= 2
    /\ outbox[1].professorName = <<"J", " ", "J">>

\* C21: a cell reading "J A. S (Primary)" is asked about as "J S", and when
\* the cache holds for it the metrics of the one teacher found (4.2, 2.8,
\* 50 ratings, 87 percent, a decodable token), the render step leaves in
\* the cell the lines "Overall: 4.2 / 5", "Difficulty: 2.8 / 5",
\* "Total Ratings: 50", "Would take again: 87%" and the profile link, in
\* that order.
C21_FoundScenario ==
    [][\A s \in ScanIds :
          /\ (/\ scan[s].pc = "process" /\ scan'[s].pc \in {"await", "catch"}
              /\ cells[scan[s].tables[scan'[s].idx]].text
                     = <<"J", " ", "A", ".", " ", "S", " ", PrimaryLit>>)
                => /\ scan'[s].name = <<"J", " ", "S">>
                   /\ Len(outbox') > Len(outbox)
                         => outbox'[Len(outbox')].professorName = <<"J", " ", "S">>
          /\ (scan[s].pc = "render" /\ scan'[s].pc = "done")
                => \A i \in 1..Len(cells) :
                      (/\ cells[i].attached /\ Reached(i)
                       /\ cells[i].text = <<"J", " ", "A", ".", " ", "S", " ", PrimaryLit>>
                       /\ CellName(i) \in DOMAIN profMap
                       /\ profMap[CellName(i)]
                              = ResolverReply([ok |-> TRUE, edges |-> <<"T1">>], "node"))
                          => cells'[i].widget =
                               << [tag |-> "span", text |-> "Overall: 4.2 / 5", href |-> <<>>],
                                  [tag |-> "br", text |-> "", href |-> <<>>],
                                  [tag |-> "span", text |-> "Difficulty: 2.8 / 5", href |-> <<>>],
                                  [tag |-> "br", text |-> "", href |-> <<>>],
                                  [tag |-> "span", text |-> "Total Ratings: 50", href |-> <<>>],
                                  [tag |-> "br", text |-> "", href |-> <<>>],
                                  [tag |-> "span", text |-> "Would take again: 87%", href |-> <<>>],
                                  [tag |-> "br", text |-> "", href |-> <<>>],
                                  [tag |-> "a", text |-> "View on RMP",
                                   href |-> <<"https://www.ratemyprofessors.com/professor/",
                                              "123">>] >>]_vars

\* C21 witness: the cell "J A. S (Primary)" was asked about as "J S" and
\* shows the four lines of that teacher.
C21_Witness ==
    \E i \in 1..Len(cells) :
        /\ cells[i].text = <<"J", " ", "A", ".", " ", "S", " ", PrimaryLit>>
        /\ <<"J", " ", "S">> \in DOMAIN origin
        /\ Len(cells[i].widget) = 9
        /\ cells[i].widget[1].text = "Overall: 4.2 / 5"
        /\ cells[i].widget[7].text = "Would take again: 87%"
        /\ cells[i].widget[9].tag = "a"

\* C22: when a render step gives a cell the widget of a metrics object, the
\* fourth line reads "No ratings available yet." exactly when the
\* percentage is the sentinel -1, and "Would take again: N%" with N the
\* percentage rounded for every other value, 0 included; the other three
\* lines and the link do not depend on the percentage.
C22_SentinelRendering ==
    [][\A i \in 1..Len(cells) :
          (/\ nScans' = nScans + 1
           /\ cells[i].attached /\ Reached(i)
           /\ CellName(i) \in DOMAIN profMap
           /\ profMap[CellName(i)] # Null)
             => LET m == profMap[CellName(i)]
                    w == cells'[i].widget
                IN  /\ Len(w) = 9
                    /\ w[1].text = "Overall: " \o FormatNumber(m.avgRating) \o " / 5"
                    /\ w[3].text = "Difficulty: " \o FormatNumber(m.avgDifficulty) \o " / 5"
                    /\ w[5].text = "Total Ratings: " \o ToString(m.numRatings)
                    /\ w[9] = [tag |-> "a", text |-> "View on RMP", href |-> m.RMPLink]
                    /\ \A k \in {2, 4, 6, 8} : w[k].tag = "br"
                    /\ IF m.wouldTakeAgainPercent = -10
                       THEN w[7].text = "No ratings available yet."
                       ELSE \E n \in -100..100 :
                               /\ 10 * n - 5 <= m.wouldTakeAgainPercent
                               /\ m.wouldTakeAgainPercent < 10 * n + 5
                               /\ w[7].text = "Would take again: " \o ToString(n) \o "%"]_vars

\* C22 witness: after a render one cell shows "Would take again: 0%" for a
\* percentage of 0 and another shows the sentinel's message.
C22_Witness ==
    /\ nScans > 0
    /\ \E i, j \in 1..Len(cells) :
          /\ Len(cells[i].widget) = 9 /\ Len(cells[j].widget) = 9
          /\ cells[i].widget[7].text = "Would take again: 0%"
          /\ cells[j].widget[7].text = "No ratings available yet."

\* C23: the name derived from a cell is the same before and after a render
\* step puts a widget in it, for names that match the instructor pattern and
\* for names that do not.
C23_NameStableAcrossRender ==
    [][\A i \in 1..Len(cells) :
          (nScans' = nScans + 1 /\ cells'[i].widget # cells[i].widget)
             => normalizeProfessorName(Trim(TextContent(cells'[i]))) = CellName(i)]_vars

\* C24: while no request is left without a response on a dead channel, an
\* invocation of handleMutations ends only by its render step, which it
\* reaches either after window.location.reload() or with a cache entry for
\* the name of every non-empty cell of its batch.
C24_ScanTermination ==
    [][\A s \in ScanIds :
          /\ (/\ scan[s].pc \notin {"done", "crashed", "hung"}
              /\ scan'[s].pc \in {"done", "crashed"}
              /\ \A s2 \in ScanIds : scan'[s2].pc # "hung")
                => scan[s].pc = "render"
          /\ (/\ scan[s].pc = "process" /\ scan'[s].pc = "render"
              /\ scan'[s].reload = "none")
                => \A j \in 1..Len(scan[s].tables) :
                      \/ Trim(cells[scan[s].tables[j]].text) = <<>>
                      \/ normalizeProfessorName(Trim(cells[scan[s].tables[j]].text))
                             \in DOMAIN profMap]_vars

\* C25: a suspended invocation is resumed by nothing but a message delivered
\* on the channel, one cut off from the channel never moves again, and when
\* the channel goes down with requests unanswered or responses undelivered,
\* each of them belongs to an invocation that is suspended on that name and
\* stays suspended: it has not gone on to later cells, to the cache or to
\* the render step.
C25_NoTimeout ==
    [][/\ \A s \in ScanIds :
             /\ scan[s].pc = "hung" => scan'[s].pc = "hung"
             /\ (scan[s].pc = "await" /\ scan'[s].pc # "await")
                   => \/ scan'[s].pc = "hung"
                      \/ inbox # <<>> /\ inbox' = Tail(inbox)
       /\ (Outstanding # <<>> /\ portAlive' = FALSE /\ Outstanding' = <<>>)
             => \A k \in 1..Len(Outstanding) :
                   \E s \in ScanIds :
                       /\ scan[s].pc = "await" /\ scan[s].name = Outstanding[k]
                       /\ scan'[s].pc = "hung"]_vars

\* C26: the listener run on a request that carries a non-empty name posts
\* exactly one response, and that response is for this request, whatever the
\* search and the metrics call come back with.
C26_OneResponsePerRequest ==
    [][(outbox # <<>> /\ outbox' = Tail(outbox)
        /\ Head(outbox).professorName # NoName)
          => /\ Len(inbox') = Len(inbox) + 1
             /\ SubSeq(inbox', 1, Len(inbox)) = inbox
             /\ inbox'[Len(inbox')].req = Head(outbox).professorName
             /\ inbox'[Len(inbox')].search = Head(outbox).search
             /\ inbox'[Len(inbox')].fetched = Head(outbox).fetched]_vars

\* C26 witness: a request with a name has been handled, its search failed,
\* and one response is on the port.
C26_Witness ==
    /\ outbox = <<>>
    /\ Len(inbox) = 1
    /\ inbox[1].req # NoName
    /\ ~inbox[1].search.ok
    /\ inbox[1].professorMetrics = Null

\* C27: the step that re-creates the channel after a disconnection leaves
\* the cache as it was, every key with its value, and the retry that
\* follows sends no request for a name the cache holds.
C27_ReconnectKeepsCache ==
    [][\A s \in ScanIds :
          /\ (/\ scan[s].pc = "catch"
              /\ scan'[s].reconnects = scan[s].reconnects + 1)
                => /\ portAlive'
                   /\ DOMAIN profMap' = DOMAIN profMap
                   /\ \A n \in DOMAIN profMap : profMap'[n] = profMap[n]
          /\ (/\ scan[s].pc = "process" /\ scan[s].reconnects > 0
              /\ scan'[s].pc \in {"await", "catch"})
                => /\ scan'[s].name \notin DOMAIN profMap
                   /\ Len(outbox') > Len(outbox)
                         => outbox'[Len(outbox')].professorName \notin DOMAIN profMap]_vars

\* C27 witness: an invocation that has reconnected passed over a cached name
\* and is suspended on a request for a name the cache lacks.
C27_Witness ==
    \E s \in ScanIds :
        /\ scan[s].reconnects > 0
        /\ scan[s].pc = "await"
        /\ scan[s].idx > 1
        /\ CellName(scan[s].tables[1]) \in DOMAIN profMap
        /\ scan[s].name \notin DOMAIN profMap

\* C28: a cell whose text is empty once trimmed is never the cell a request
\* is sent for, no step adds the empty name to the cache as a key, and
\* after a render step such a cell holds no widget.
C28_EmptyCells ==
    [][\A s \in ScanIds :
          /\ (scan[s].pc = "process" /\ scan'[s].pc \in {"await", "catch"})
                => /\ Trim(TextContent(cells[scan[s].tables[scan'[s].idx]])) # <<>>
                   /\ scan'[s].name # NoName
                   /\ \A k \in 1..Len(outbox') : outbox'[k].professorName # NoName
          /\ NoName \notin DOMAIN profMap'
          /\ (scan[s].pc = "render" /\ scan'[s].pc = "done")
                => \A i \in 1..Len(cells) :
                      (cells[i].attached /\ Trim(TextContent(cells[i])) = <<>>)
                         => cells'[i].widget = NoWidget]_vars

\* C28 witness: an empty cell stood before a cell that has since been given
\* a widget: it went through a scan and a render step, it has no widget and
\* the cache has no key for it.
C28_Witness ==
    \E i, j \in 1..Len(cells) :
        /\ i < j
        /\ Trim(cells[i].text) = <<>>
        /\ cells[i].widget = NoWidget
        /\ cells[j].widget # NoWidget
        /\ profMap # <<>>
        /\ NoName \notin DOMAIN profMap

\* C29: a text the instructor pattern does not match comes out of
\* normalization unchanged, the first time and every time it is applied.
C29_NormalizeFallback ==
    PRIMARY_PROFESSOR_REGEX(cells[1].text) = <<>>
        => \A k \in 1..Len(outbox) : outbox[k].professorName = cells[1].text

\* C29 witness: the text "J. J(Primary)", which carries the annotation but
\* has no blank after its first word, was normalized twice and came out
\* unchanged both times.
C29_Witness ==
    /\ cells[1].text = <<"J", ".", " ", "J", PrimaryLit>>
    /\ PRIMARY_PROFESSOR_REGEX(cells[1].text) = <<>>
    /\ Len(outbox) = 2
    /\ outbox[1].professorName = cells[1].text
    /\ outbox[2].professorName = cells[1].text

====
